---- MODULE Spec2Model ----
(***************************************************************************)
(* A model of gnucashxml.py, the GnuCash XML loader.                       *)
(*                                                                         *)
(* The module is a library: its functions are the operations.  Three       *)
(* specifications share the variables below.                               *)
(*   SpecNumber  _parse_number applied to a literal                        *)
(*   SpecSlots   _slots_from_tree applied to a slot container              *)
(*   Spec        the decoders that build the object graph: parse,          *)
(*               _book_from_tree, _iterparse and _transaction_from_tree    *)
(* Strings that the code parses character by character are sequences of    *)
(* one-character strings.  None is "none" for strings and 0 for object     *)
(* references (an object reference is an index into a heap sequence).      *)
(***************************************************************************)
EXTENDS Integers, Sequences, FiniteSets, TLC

VARIABLES
    \* _parse_number
    numstring, numResult, npc,
    \* _slots_from_tree
    slotTree, slotResult, spc,
    \* the decoders: the function called, the document's count-data record,
    \* the place in the function, the exception raised, the value returned
    entry, countData, pc, error, returned,
    \* the Commodity objects, the commodities list, the commodity dictionary
    commodityObjs, commodities, commoditydict,
    \* the Price objects, in the order of the prices list
    priceObjs,
    \* the Account objects, the account dictionary, the parent dictionary,
    \* the accounts list, the root account
    accountObjs, accountdict, parentdict, accounts, root_account,
    \* the Transaction objects, the transactions list, the Split objects,
    \* the transaction whose splits are being decoded
    transactionObjs, transactions, splitObjs, transaction,
    \* the book's slots
    bookSlots,
    \* the position of the linking loop
    linkPos,
    \* what has been read of the document: the account declarations, those of
    \* type ROOT, whether the count-data record was met, the last price
    ndecl, nroot, countSeen, lastPrice,
    \* Account.walk: the account it is called on, its accounts list, the
    \* children list it has yielded, the place in the generator, the accounts
    \* yielded so far; what the caller has done to the yielded lists
    walkSelf, walkAccounts, walkChildren, wpc, yielded, removed, added, edits

numVars == <<numstring, numResult, npc>>
slotVars == <<slotTree, slotResult, spc>>
callVars == <<entry, countData>>
commodityVars == <<commodityObjs, commodities, commoditydict>>
accountVars == <<accountObjs, accountdict, parentdict, accounts, root_account, ndecl, nroot>>
transactionVars == <<transactionObjs, transactions, splitObjs, transaction>>
graphVars == <<callVars, pc, error, returned, commodityVars, priceObjs, accountVars,
               transactionVars, bookSlots, linkPos, countSeen, lastPrice>>
walkVars == <<walkSelf, walkAccounts, walkChildren, wpc, yielded, removed, added, edits>>
vars == <<numVars, slotVars, graphVars, walkVars>>

(***************************************************************************)
(* Bounds of the inputs.                                                   *)
(***************************************************************************)
MaxLitLen == 5

\* The characters number literals are drawn from.
LitChars == {"0", "1", "2", "3", "5", "7", "-", ".", "/", "e"}

\* The number of slot elements in a slot container, and of items in a list.
MaxSlotElems == 2

MaxItems == 1

\* The number of commodity declarations, price elements, account declarations,
\* transaction elements and split elements of a transaction in a document.
MaxCommodities == 2

MaxPrices == 1

MaxAccounts == 3

MaxTransactions == 1

MaxSplits == 2

\* The number of accounts of a tree that is walked, and the number of changes
\* the caller makes to the children lists that walk yields.
MaxWalkAccounts == 4

MaxEdits == 1

\* The account ids, and the (cmdty:space, cmdty:id) pairs, of the documents.
Guids == 1..MaxAccounts

Spaces == {"CURRENCY"}

Symbols == {"EUR", "USD"}

Keys == Spaces \X Symbols


\* All sequences over S of length at most n.
SeqsUpTo(S, n) == UNION {[1..k -> S] : k \in 0..n}

(***************************************************************************)
(* Exceptions and results.  A call either returns a value or raises.       *)
(***************************************************************************)
Raise(exc) == [kind |-> "raise", exc |-> exc]

Raised(r) == r.kind = "raise"

(***************************************************************************)
(* str.split("/") and decimal.Decimal(str)                                 *)
(***************************************************************************)
Digits == {"0", "1", "2", "3", "4", "5", "6", "7", "8", "9"}

DigitVal(c) ==
    CASE c = "0" -> 0 [] c = "1" -> 1 [] c = "2" -> 2 [] c = "3" -> 3
      [] c = "4" -> 4 [] c = "5" -> 5 [] c = "6" -> 6 [] c = "7" -> 7
      [] c = "8" -> 8 [] c = "9" -> 9

AllDigits(s) == \A i \in 1..Len(s) : s[i] \in Digits

RECURSIVE DigitsToInt(_)
DigitsToInt(s) ==
    IF s = <<>> THEN 0
    ELSE 10 * DigitsToInt(SubSeq(s, 1, Len(s) - 1)) + DigitVal(s[Len(s)])

\* Index of the first occurrence of c in s, 0 when there is none.
IndexOf(s, c) ==
    IF \E i \in 1..Len(s) : s[i] = c
    THEN CHOOSE i \in 1..Len(s) : s[i] = c /\ \A j \in 1..(i - 1) : s[j] # c
    ELSE 0

\* s.split(sep): the pieces between the separators, one more than their number.
RECURSIVE Split(_, _)
Split(s, sep) ==
    LET i == IndexOf(s, sep)
    IN  IF i = 0 THEN <<s>>
        ELSE <<SubSeq(s, 1, i - 1)>> \o Split(SubSeq(s, i + 1, Len(s)), sep)

\* [-]digits: what the number format calls an integer.
IsIntegerLiteral(s) ==
    LET body == IF s # <<>> /\ s[1] = "-" THEN Tail(s) ELSE s
    IN  body # <<>> /\ AllDigits(body)

\* decimal.Decimal(s): [sign] (digits [. [digits]] | . digits) [e [sign] digits].
\* The value is sign * coef * 10^exp.
Decimal(s) ==
    LET neg == s # <<>> /\ s[1] = "-"
        body == IF neg THEN Tail(s) ELSE s
        e == IndexOf(body, "e")
        mant == IF e = 0 THEN body ELSE SubSeq(body, 1, e - 1)
        expo == IF e = 0 THEN <<>> ELSE SubSeq(body, e + 1, Len(body))
        expoNeg == expo # <<>> /\ expo[1] = "-"
        expoDigits == IF expoNeg THEN Tail(expo) ELSE expo
        dot == IndexOf(mant, ".")
        intpart == IF dot = 0 THEN mant ELSE SubSeq(mant, 1, dot - 1)
        frac == IF dot = 0 THEN <<>> ELSE SubSeq(mant, dot + 1, Len(mant))
        okMant == AllDigits(intpart) /\ AllDigits(frac) /\ Len(intpart) + Len(frac) >= 1
        okExp == e = 0 \/ (expoDigits # <<>> /\ AllDigits(expoDigits))
        expVal == IF expoNeg THEN 0 - DigitsToInt(expoDigits) ELSE DigitsToInt(expoDigits)
    IN  IF okMant /\ okExp
        THEN [kind |-> "decimal",
              sign |-> IF neg THEN -1 ELSE 1,
              coef |-> DigitsToInt(intpart \o frac),
              exp |-> expVal - Len(frac)]
        ELSE Raise("InvalidOperation")

(***************************************************************************)
(* Decimal division in the default context: the quotient is rounded to     *)
(* prec significant digits, ROUND_HALF_EVEN.  The quotient is computed by  *)
(* long division, one digit at a time, so that no intermediate number      *)
(* exceeds ten times the divisor.                                          *)
(***************************************************************************)
\* decimal.getcontext().prec, the default context's precision.
prec == 28

RECURSIVE IntToDigits(_)
IntToDigits(n) ==
    IF n = 0 THEN <<>> ELSE IntToDigits(n \div 10) \o <<n % 10>>

\* Digits after the point: q holds the significant digits so far, places the
\* number of digits generated after the point, r the remainder.
RECURSIVE LongDivision(_, _, _, _)
LongDivision(q, places, r, d) ==
    IF r = 0 \/ Len(q) >= prec
    THEN [q |-> q, places |-> places, r |-> r]
    ELSE LET digit == (10 * r) \div d
         IN  LongDivision(IF q = <<>> /\ digit = 0 THEN q ELSE Append(q, digit),
                          places + 1, (10 * r) % d, d)

\* The digit sequence plus one in the last place.
RECURSIVE Increment(_)
Increment(q) ==
    IF q = <<>> THEN <<1>>
    ELSE IF q[Len(q)] < 9
         THEN [q EXCEPT ![Len(q)] = @ + 1]
         ELSE Append(Increment(SubSeq(q, 1, Len(q) - 1)), 0)

\* a / b for two decimals.
Divide(a, b) ==
    IF b.coef = 0
    THEN IF a.coef = 0 THEN Raise("InvalidOperation") ELSE Raise("DivisionByZero")
    ELSE LET ld == LongDivision(IntToDigits(a.coef \div b.coef), 0, a.coef % b.coef, b.coef)
             last == IF ld.q = <<>> THEN 0 ELSE ld.q[Len(ld.q)]
             up == ld.r # 0 /\ (2 * ld.r > b.coef \/ (2 * ld.r = b.coef /\ last % 2 = 1))
             rq == IF up THEN Increment(ld.q) ELSE ld.q
             carried == Len(rq) > Len(ld.q) /\ ld.q # <<>>
         IN  [kind |-> "value",
              sign |-> a.sign * b.sign,
              digits |-> IF carried THEN SubSeq(rq, 1, Len(rq) - 1) ELSE rq,
              exp |-> a.exp - b.exp - ld.places + (IF carried THEN 1 ELSE 0),
              inexact |-> ld.r # 0]

\* _parse_number(numstring)
ParseNumber(s) ==
    LET parts == Split(s, "/")
    IN  IF Len(parts) # 2 THEN Raise("ValueError")
        ELSE LET num == Decimal(parts[1])
                 denum == Decimal(parts[2])
             IN  IF Raised(num) THEN num
                 ELSE IF Raised(denum) THEN denum
                 ELSE Divide(num, denum)

(***************************************************************************)
(* SpecNumber: one call of _parse_number.                                  *)
(***************************************************************************)
NoResult == [kind |-> "none"]

IdleNumber == numstring = <<>> /\ numResult = NoResult /\ npc = "idle"

IdleSlots == slotTree = [present |-> FALSE, slots |-> <<>>] /\ slotResult = NoResult /\ spc = "idle"

\* No object has been made.
EmptyGraph ==
    /\ error = "none" /\ returned = "none"
    /\ commodityObjs = <<>> /\ commodities = <<>>
    /\ commoditydict = [k \in Keys |-> 0]
    /\ priceObjs = <<>>
    /\ accountObjs = <<>> /\ accounts = <<>> /\ root_account = 0
    /\ accountdict = [g \in Guids |-> 0]
    /\ parentdict = [g \in Guids |-> 0]
    /\ transactionObjs = <<>> /\ transactions = <<>>
    /\ splitObjs = <<>> /\ transaction = 0
    /\ bookSlots = NoResult
    /\ linkPos = 0 /\ ndecl = 0 /\ nroot = 0 /\ countSeen = FALSE
    /\ lastPrice = [seen |-> FALSE]

\* walk is not called.
IdleWalk ==
    /\ walkSelf = 0 /\ walkAccounts = <<>> /\ walkChildren = <<>>
    /\ wpc = "idle" /\ yielded = <<>>
    /\ removed = FALSE /\ added = FALSE /\ edits = 0

IdleGraph ==
    /\ IdleWalk
    /\ entry = "none" /\ pc = "idle"
    /\ countData = [present |-> FALSE, type |-> "none", text |-> "none"]
    /\ EmptyGraph

InitNumber ==
    /\ numstring \in SeqsUpTo(LitChars, MaxLitLen)
    /\ numResult = NoResult
    /\ npc = "call"
    /\ IdleSlots
    /\ IdleGraph

CallParseNumber ==
    /\ npc = "call"
    /\ numResult' = ParseNumber(numstring)
    /\ npc' = "returned"
    /\ UNCHANGED <<numstring, slotVars, graphVars, walkVars>>

NextNumber == CallParseNumber

SpecNumber == InitNumber /\ [][NextNumber]_vars

\* The literal is <integer>/<integer>.
IsIntegerPair(s) ==
    LET parts == Split(s, "/")
    IN  Len(parts) = 2 /\ IsIntegerLiteral(parts[1]) /\ IsIntegerLiteral(parts[2])

\* The literal is n/d for integers n and d, d non-zero.
IsRationalLiteral(s) ==
    /\ IsIntegerPair(s)
    /\ \E i \in 1..Len(Split(s, "/")[2]) : Split(s, "/")[2][i] \in Digits \ {"0"}

\* C9: for every literal n/d with integers n and d, d non-zero, _parse_number
\* returns a value exactly equal to the rational n/d: nothing was rounded
\* away at parse time.
C9_ExactRational ==
    (npc = "returned" /\ IsRationalLiteral(numstring))
        => (numResult.kind = "value" /\ ~numResult.inexact)

\* C10: _parse_number raises, and returns no value, for every literal that
\* is not of the form <integer>/<integer>.
C10_RejectsNonIntegerSides ==
    (npc = "returned" /\ ~IsIntegerPair(numstring)) => Raised(numResult)

(***************************************************************************)
(* Slot containers.  A slot element has a key and a value element; the     *)
(* value element has a type attribute ("absent" when it has none), a text, *)
(* slot children (read when the type is frame) and value children, the     *)
(* items (read when the type is list).  An item is a value element with    *)
(* slot children.  The date child of a gdate or timespec value holds the   *)
(* value's text.                                                           *)
(***************************************************************************)
SlotKeys == {"a", "b"}

\* The (type, text) pairs of the scalar values the inputs are built from.
LeafValues ==
    { <<"integer", <<"5">>>>, <<"double", <<"1", ".", "5">>>>,
      <<"numeric", <<"5", "/", "1">>>>,
      <<"gdate", <<"2", "0", "2", "0">>>>,
      <<"absent", <<"x">>>>, <<"unicorn", <<"x">>>> }

Slot(key, type, text, slots, items) ==
    [key |-> key, type |-> type, text |-> text, slots |-> slots, items |-> items]

\* The sequences of exactly len items whose slot children number n in all;
\* seqs[j + 1] holds the slot sequences of j elements.
RECURSIVE ItemSeqs(_, _, _)
ItemSeqs(seqs, n, len) ==
    IF len = 0 THEN (IF n = 0 THEN {<<>>} ELSE {})
    ELSE UNION {{<<[slots |-> f]>> \o r : f \in seqs[m + 1], r \in ItemSeqs(seqs, n - m, len - 1)}
                : m \in 0..n}

\* Level n holds the slot elements and the slot sequences of exactly n slot
\* elements; levels is the sequence of the levels 0..n-1.
SlotLevel(levels) ==
    LET n == Len(levels)
        seqs == [j \in 1..n |-> levels[j].seqs]
        elems ==
            {Slot(k, "frame", <<>>, f, <<>>) : k \in SlotKeys, f \in seqs[n]}
            \cup {Slot(k, "list", <<>>, <<>>, l) :
                     k \in SlotKeys, l \in UNION {ItemSeqs(seqs, n - 1, len) : len \in 0..MaxItems}}
            \cup (IF n = 1
                  THEN {Slot(k, v[1], v[2], <<>>, <<>>) : k \in SlotKeys, v \in LeafValues}
                  ELSE {})
        elemsAt(j) == IF j = n THEN elems ELSE levels[j + 1].elems
    IN  [elems |-> elems,
         seqs |-> UNION {{<<e>> \o r : e \in elemsAt(m), r \in seqs[n - m + 1]} : m \in 1..n}]

RECURSIVE SlotLevels(_)
SlotLevels(n) ==
    IF n = 0 THEN <<[elems |-> {}, seqs |-> {<<>>}]>>
    ELSE LET below == SlotLevels(n - 1) IN Append(below, SlotLevel(below))

\* tree is None
NoTree == [present |-> FALSE, slots |-> <<>>]

Tree(slots) == [present |-> TRUE, slots |-> slots]

SlotContainers ==
    LET levels == SlotLevels(MaxSlotElems)
    IN  {NoTree} \cup {Tree(f) : f \in UNION {levels[n + 1].seqs : n \in 0..MaxSlotElems}}

(***************************************************************************)
(* _slots_from_tree                                                        *)
(***************************************************************************)
\* int(text)
int(s) ==
    IF IsIntegerLiteral(s)
    THEN [kind |-> "int",
          val |-> IF s[1] = "-" THEN 0 - DigitsToInt(Tail(s)) ELSE DigitsToInt(s)]
    ELSE Raise("ValueError")

\* dateutil's parse: the texts of digits stand for the texts it accepts.
parse_date(s) ==
    IF s # <<>> /\ AllDigits(s) THEN [kind |-> "date", text |-> s]
    ELSE Raise("ParserError")

EmptyDict == [kind |-> "dict", keys |-> {}, at |-> [k \in SlotKeys |-> NoResult]]

\* slots[key] = v
DictSet(d, key, v) ==
    [kind |-> "dict", keys |-> d.keys \cup {key}, at |-> [d.at EXCEPT ![key] = v]]

RECURSIVE SlotsFromTree(_), SlotLoop(_, _), SlotValueSilent(_), SlotValue(_), ItemLoop(_, _)

\* The list comprehension of the list branch.
ItemLoop(items, out) ==
    IF items = <<>> THEN [kind |-> "list", items |-> out]
    ELSE LET d == SlotsFromTree(Tree(Head(items).slots))
         IN  IF Raised(d) THEN d ELSE ItemLoop(Tail(items), Append(out, d))

\* A decoder that stores None for a type it does not know.
SlotValueSilent(elt) ==
    CASE elt.type \in {"integer", "double"} -> int(elt.text)
      [] elt.type = "numeric" -> ParseNumber(elt.text)
      [] elt.type \in {"string", "guid", "absent"} -> [kind |-> "str", text |-> elt.text]
      [] elt.type = "gdate" -> parse_date(elt.text)
      [] elt.type = "timespec" -> parse_date(elt.text)
      [] elt.type = "frame" -> SlotsFromTree(Tree(elt.slots))
      [] elt.type = "list" -> ItemLoop(elt.items, <<>>)
      [] OTHER -> NoResult

\* The dispatch on the value's type attribute, 'string' when it has none.
SlotValue(elt) ==
    LET type_ == IF elt.type = "absent" THEN "string" ELSE elt.type
    IN  CASE type_ \in {"integer", "double"} -> int(elt.text)
          [] type_ = "numeric" -> ParseNumber(elt.text)
          [] type_ \in {"string", "guid"} -> [kind |-> "str", text |-> elt.text]
          [] type_ = "gdate" -> parse_date(elt.text)
          [] type_ = "timespec" -> parse_date(elt.text)
          [] type_ = "frame" -> SlotsFromTree(Tree(elt.slots))
          [] type_ = "list" -> ItemLoop(elt.items, <<>>)
          [] OTHER -> Raise("RuntimeError")

\* for elt in tree.findall("slot")
SlotLoop(slots, d) ==
    IF slots = <<>> THEN d
    ELSE LET v == SlotValue(Head(slots))
         IN  IF Raised(v) THEN v ELSE SlotLoop(Tail(slots), DictSet(d, Head(slots).key, v))

SlotsFromTree(tree) ==
    IF ~tree.present THEN EmptyDict ELSE SlotLoop(tree.slots, EmptyDict)

(***************************************************************************)
(* SpecSlots: one call of _slots_from_tree.                                *)
(***************************************************************************)
InitSlots ==
    /\ slotTree \in SlotContainers
    /\ slotResult = NoResult
    /\ spc = "call"
    /\ IdleNumber
    /\ IdleGraph

CallSlotsFromTree ==
    /\ spc = "call"
    /\ slotResult' = SlotsFromTree(slotTree)
    /\ spc' = "returned"
    /\ UNCHANGED <<slotTree, numVars, graphVars, walkVars>>

NextSlots == CallSlotsFromTree

SpecSlots == InitSlots /\ [][NextSlots]_vars

\* The types the dispatch knows.
KnownTypes ==
    {"integer", "double", "numeric", "string", "guid", "gdate", "timespec", "frame", "list"}

\* The slot elements of a container at every depth, in document order.
RECURSIVE Preorder(_), PreorderItems(_)
Preorder(slots) ==
    IF slots = <<>> THEN <<>>
    ELSE <<Head(slots)>> \o Preorder(Head(slots).slots)
            \o PreorderItems(Head(slots).items) \o Preorder(Tail(slots))

PreorderItems(items) ==
    IF items = <<>> THEN <<>>
    ELSE Preorder(Head(items).slots) \o PreorderItems(Tail(items))

UnknownType(elt) == elt.type \notin KnownTypes \cup {"absent"}

\* The value's text is not what its type requires.
Malformed(elt) ==
    \/ elt.type \in {"integer", "double"} /\ ~IsIntegerLiteral(elt.text)
    \/ elt.type = "numeric" /\ Raised(ParseNumber(elt.text))
    \/ elt.type \in {"gdate", "timespec"} /\ Raised(parse_date(elt.text))

\* C8 as stated: a value of an unknown type at any depth makes the decode
\* fail with the unknown-slot-type error.
C8_UnknownTypeRaisesUnknownSlotType ==
    (spc = "returned" /\ \E i \in 1..Len(Preorder(slotTree.slots)) :
                            UnknownType(Preorder(slotTree.slots)[i]))
        => slotResult = Raise("RuntimeError")

\* C8 as amended: a value of an unknown type at any depth makes the decode
\* fail and return no mapping; the error is the unknown-slot-type error when
\* no value before it in document order is malformed.  A value without a type
\* attribute is decoded as a string.
C8_UnknownTypeNeverDecodes ==
    spc = "returned" =>
        LET p == Preorder(slotTree.slots)
            top == slotTree.slots
        IN  /\ \A i \in 1..Len(p) :
                  UnknownType(p[i]) =>
                      /\ Raised(slotResult)
                      /\ (\A j \in 1..(i - 1) : ~Malformed(p[j]))
                            => slotResult = Raise("RuntimeError")
            /\ \A i \in 1..Len(top) :
                  (/\ top[i].type = "absent"
                   /\ ~Raised(slotResult)
                   /\ \A j \in (i + 1)..Len(top) : top[j].key # top[i].key)
                      => slotResult.at[top[i].key] = [kind |-> "str", text |-> top[i].text]

\* An unknown type inside a mapping of a list is reached and refused.
C8_Witness ==
    /\ spc = "returned"
    /\ slotResult = Raise("RuntimeError")
    /\ \E i \in 1..Len(slotTree.slots) :
          /\ slotTree.slots[i].type = "list"
          /\ \E j \in 1..Len(slotTree.slots[i].items) :
                \E k \in 1..Len(slotTree.slots[i].items[j].slots) :
                    UnknownType(slotTree.slots[i].items[j].slots[k])

(***************************************************************************)
(* Spec: the decoders of the object graph.  Objects live in sequences, a   *)
(* reference is an index, 0 is None.  A document is read element by        *)
(* element: every step draws the next element.  The i-th account           *)
(* declaration of a document has the id i; parent and split references     *)
(* are any id of Guids.                                                    *)
(***************************************************************************)
KeySeq == <<<<"CURRENCY", "EUR">>, <<"CURRENCY", "USD">>>>

\* The texts of price:value and split:value.
NumberInputs == {<<"1", "/", "3">>, <<"1">>}

\* The top-level gnc:count-data record of the document.
NoCount == [present |-> FALSE, type |-> "none", text |-> "none"]

CountInputs ==
    {NoCount} \cup {[present |-> TRUE, type |-> c[1], text |-> c[2]] :
                        c \in {<<"book", "1">>, <<"book", "2">>, <<"account", "2">>}}

\* The book:slots of the document.
BookSlotInputs ==
    {NoTree,
     Tree(<<Slot("a", "absent", <<"x">>, <<>>, <<>>)>>),
     Tree(<<Slot("a", "unicorn", <<"x">>, <<>>, <<>>)>>)}

Max(S) == CHOOSE x \in S : \A y \in S : y <= x

\* The parameters of Commodity.__init__(self, space, symbol, name=None,
\* xcode=None).
CommodityParams == {"space", "symbol", "name", "xcode"}

\* A constructor that takes the symbol under the keyword id as well.
CommodityTakingId(kw) ==
    IF DOMAIN kw \subseteq CommodityParams \cup {"id"}
            /\ "space" \in DOMAIN kw
            /\ ("symbol" \in DOMAIN kw) # ("id" \in DOMAIN kw)
    THEN [kind |-> "Commodity", space |-> kw.space,
          symbol |-> IF "id" \in DOMAIN kw THEN kw.id ELSE kw.symbol,
          name |-> "none", xcode |-> "none"]
    ELSE Raise("TypeError")

\* Commodity.__init__ called with the keyword arguments kw.
Commodity(kw) ==
    IF DOMAIN kw \subseteq CommodityParams /\ {"space", "symbol"} \subseteq DOMAIN kw
    THEN [kind |-> "Commodity", space |-> kw.space, symbol |-> kw.symbol,
          name |-> "none", xcode |-> "none"]
    ELSE Raise("TypeError")

KeyOf(c) == <<c.space, c.symbol>>

Account(guid, actype, commodity) ==
    [guid |-> guid, actype |-> actype, parent |-> 0, children |-> <<>>,
     commodity |-> commodity, splits |-> <<>>]

\* _commodity_from_tree of _book_from_tree; the declaration has a cmdty:name
\* and no cmdty:xcode.
CommodityFromTree(key) ==
    LET commodity == Commodity([space |-> key[1], id |-> key[2]])
    IN  IF Raised(commodity) THEN commodity
        ELSE [commodity EXCEPT !.name = "text"]

\* {(c.space, c.symbol): c for c in commodities}
CommodityDict(objs, list) ==
    [k \in Keys |->
        LET at == {i \in 1..Len(list) : KeyOf(objs[list[i]]) = k}
        IN  IF at = {} THEN 0 ELSE list[Max(at)]]

NoPrice == [seen |-> FALSE]

\* _price_from_tree of _book_from_tree: the exception ("none" when it
\* returns), the objects and the dictionary it leaves, the price.
PriceFromTree(objs, dict, currency, commodity, text) ==
    LET value == ParseNumber(text)
        new == Commodity([space |-> currency[1], id |-> currency[2]])
        absent == dict[currency] = 0
        objs1 == IF absent THEN Append(objs, new) ELSE objs
        dict1 == IF absent THEN [dict EXCEPT ![currency] = Len(objs) + 1] ELSE dict
    IN  IF Raised(value)
        THEN [exc |-> value.exc, objs |-> objs, dict |-> dict, price |-> <<>>]
        ELSE IF Raised(new)
        THEN [exc |-> new.exc, objs |-> objs, dict |-> dict, price |-> <<>>]
        ELSE IF dict1[commodity] = 0
        THEN [exc |-> "KeyError", objs |-> objs1, dict |-> dict1, price |-> <<>>]
        ELSE [exc |-> "none", objs |-> objs1, dict |-> dict1,
              price |-> <<[commodity |-> dict1[commodity], currency |-> dict1[currency]]>>]

\* _account_from_tree: the exception, the parent id (0 is None), the account.
AccountFromTree(guid, actype, parent, key, dict) ==
    IF actype = "ROOT"
    THEN [exc |-> "none", parent_guid |-> 0, acc |-> Account(guid, actype, 0)]
    ELSE IF dict[key] = 0
    THEN [exc |-> "KeyError", parent_guid |-> parent, acc |-> Account(guid, actype, 0)]
    ELSE [exc |-> "none", parent_guid |-> parent, acc |-> Account(guid, actype, dict[key])]

\* The split is not entered in its account.
AppendSplitNowhere(objs, account, split) == objs

\* account.splits.append(split)
AppendSplit(objs, account, split) ==
    [objs EXCEPT ![account].splits = Append(@, split)]

\* The names the module binds by its imports.
ModuleNames == {"decimal", "gzip", "parse_date", "etree"}

Fail(exc) == pc' = "failed" /\ error' = exc

InitGraph ==
    /\ IdleNumber /\ IdleSlots /\ IdleWalk
    /\ EmptyGraph
    /\ \/ /\ entry = "parse" /\ pc = "call"
          /\ countData \in CountInputs
       \/ /\ entry = "_book_from_tree" /\ pc = "commodities"
          /\ countData \in CountInputs
       \/ /\ entry = "_iterparse" /\ pc = "prolog"
          /\ countData \in CountInputs

\* _transaction_from_tree is called with an accountdict of the accounts
\* 1..n and a commoditydict of the first k keys.
InitTransaction ==
    /\ IdleNumber /\ IdleSlots /\ IdleWalk
    /\ entry = "_transaction_from_tree" /\ pc = "transactions"
    /\ countData = NoCount
    /\ error = "none" /\ returned = "none"
    /\ \E n \in 0..MaxAccounts :
          /\ accountObjs = [i \in 1..n |-> Account(i, "BANK", 0)]
          /\ accountdict = [g \in Guids |-> IF g <= n THEN g ELSE 0]
    /\ \E k \in 0..Len(KeySeq) :
          /\ commodityObjs = [i \in 1..k |->
                                Commodity([space |-> KeySeq[i][1], symbol |-> KeySeq[i][2]])]
          /\ commoditydict = [key \in Keys |->
                                IF \E i \in 1..k : KeySeq[i] = key
                                THEN CHOOSE i \in 1..k : KeySeq[i] = key
                                ELSE 0]
    /\ commodities = <<>> /\ priceObjs = <<>>
    /\ accounts = <<>> /\ root_account = 0
    /\ parentdict = [g \in Guids |-> 0]
    /\ transactionObjs = <<>> /\ transactions = <<>>
    /\ splitObjs = <<>> /\ transaction = 0
    /\ bookSlots = NoResult
    /\ linkPos = 0 /\ ndecl = 0 /\ nroot = 0 /\ countSeen = FALSE
    /\ lastPrice = NoPrice

Init == InitGraph \/ InitTransaction

\* parse: the first statement names lxml.
Parse ==
    /\ entry = "parse" /\ pc = "call"
    /\ IF "lxml" \notin ModuleNames
       THEN Fail("NameError") /\ UNCHANGED returned
       ELSE pc' = "done" /\ returned' = "Book" /\ UNCHANGED error
    /\ UNCHANGED <<numVars, slotVars, walkVars, callVars, commodityVars, priceObjs, accountVars,
                   transactionVars, bookSlots, linkPos, countSeen, lastPrice>>

\* _book_from_tree, the loop over the gnc:commodity children.
BookCommodity ==
    /\ entry = "_book_from_tree" /\ pc = "commodities"
    /\ Len(commodities) < MaxCommodities
    /\ \E key \in Keys :
          LET commodity == CommodityFromTree(key)
          IN  IF Raised(commodity)
              THEN /\ Fail(commodity.exc)
                   /\ UNCHANGED <<commodityObjs, commodities>>
              ELSE /\ commodityObjs' = Append(commodityObjs, commodity)
                   /\ commodities' = Append(commodities, Len(commodityObjs) + 1)
                   /\ UNCHANGED <<pc, error>>
    /\ UNCHANGED <<numVars, slotVars, walkVars, callVars, returned, commoditydict, priceObjs,
                   accountVars, transactionVars, bookSlots, linkPos, countSeen, lastPrice>>

\* _book_from_tree, the dictionary of the commodities.
BookCommoditiesEnd ==
    /\ entry = "_book_from_tree" /\ pc = "commodities"
    /\ commoditydict' = CommodityDict(commodityObjs, commodities)
    /\ pc' = "pricedb"
    /\ UNCHANGED <<numVars, slotVars, walkVars, callVars, error, returned, commodityObjs, commodities,
                   priceObjs, accountVars, transactionVars, bookSlots, linkPos, countSeen,
                   lastPrice>>

\* _book_from_tree, the loop over the price children of gnc:pricedb.
BookPrice ==
    /\ entry = "_book_from_tree" /\ pc = "pricedb"
    /\ Len(priceObjs) < MaxPrices
    /\ \E currency \in Keys, commodity \in Keys, text \in NumberInputs :
          LET r == PriceFromTree(commodityObjs, commoditydict, currency, commodity, text)
          IN  /\ lastPrice' = [seen |-> TRUE, currency |-> currency, commodity |-> commodity,
                               wellFormed |-> ~Raised(ParseNumber(text)),
                               currencyKnown |-> commoditydict[currency] # 0,
                               commodityKnown |-> commoditydict[commodity] # 0]
              /\ commodityObjs' = r.objs
              /\ commoditydict' = r.dict
              /\ IF r.exc # "none"
                 THEN Fail(r.exc) /\ UNCHANGED priceObjs
                 ELSE priceObjs' = Append(priceObjs, r.price[1]) /\ UNCHANGED <<pc, error>>
    /\ UNCHANGED <<numVars, slotVars, walkVars, callVars, returned, commodities, accountVars,
                   transactionVars, bookSlots, linkPos, countSeen>>

BookPricesEnd ==
    /\ entry = "_book_from_tree" /\ pc = "pricedb"
    /\ pc' = "accounts"
    /\ UNCHANGED <<numVars, slotVars, walkVars, callVars, error, returned, commodityVars, priceObjs,
                   accountVars, transactionVars, bookSlots, linkPos, countSeen, lastPrice>>

\* _book_from_tree, the loop over the gnc:account children.
BookAccount ==
    /\ entry = "_book_from_tree" /\ pc = "accounts"
    /\ ndecl < MaxAccounts
    /\ \E actype \in {"ROOT", "BANK"}, parent \in Guids, key \in Keys :
          LET r == AccountFromTree(ndecl + 1, actype, parent, key, commoditydict)
              acc == Len(accountObjs) + 1
          IN  IF r.exc # "none"
              THEN Fail(r.exc) /\ UNCHANGED accountVars
              ELSE /\ accountObjs' = Append(accountObjs, r.acc)
                   /\ root_account' = IF actype = "ROOT" THEN acc ELSE root_account
                   /\ accountdict' = [accountdict EXCEPT ![ndecl + 1] = acc]
                   /\ parentdict' = [parentdict EXCEPT ![ndecl + 1] = r.parent_guid]
                   /\ ndecl' = ndecl + 1
                   /\ nroot' = IF actype = "ROOT" THEN nroot + 1 ELSE nroot
                   /\ UNCHANGED <<accounts, pc, error>>
    /\ UNCHANGED <<numVars, slotVars, walkVars, callVars, returned, commodityVars, priceObjs,
                   transactionVars, bookSlots, linkPos, countSeen, lastPrice>>

BookAccountsEnd ==
    /\ entry = "_book_from_tree" /\ pc = "accounts"
    /\ pc' = "link"
    /\ linkPos' = 1
    /\ UNCHANGED <<numVars, slotVars, walkVars, callVars, error, returned, commodityVars, priceObjs,
                   accountVars, transactionVars, bookSlots, countSeen, lastPrice>>

\* _book_from_tree, the loop over accountdict.values(): the accounts in the
\* order of their declarations.
BookLink ==
    /\ entry = "_book_from_tree" /\ pc = "link"
    /\ linkPos <= ndecl
    /\ LET acc == accountdict[linkPos]
           parent == accountdict[parentdict[accountObjs[acc].guid]]
       IN  IF accountObjs[acc].parent = 0 /\ accountObjs[acc].actype # "ROOT"
           THEN IF parent = 0
                THEN Fail("KeyError") /\ UNCHANGED <<accountObjs, accounts, linkPos>>
                ELSE /\ accountObjs' = [accountObjs EXCEPT ![acc].parent = parent,
                                                           ![parent].children = Append(@, acc)]
                     /\ accounts' = Append(accounts, acc)
                     /\ linkPos' = linkPos + 1
                     /\ UNCHANGED <<pc, error>>
           ELSE /\ linkPos' = linkPos + 1
                /\ UNCHANGED <<accountObjs, accounts, pc, error>>
    /\ UNCHANGED <<numVars, slotVars, walkVars, callVars, returned, commodityVars, priceObjs,
                   accountdict, parentdict, root_account, ndecl, nroot, transactionVars,
                   bookSlots, countSeen, lastPrice>>

BookLinkEnd ==
    /\ entry = "_book_from_tree" /\ pc = "link"
    /\ linkPos > ndecl
    /\ pc' = "transactions"
    /\ UNCHANGED <<numVars, slotVars, walkVars, callVars, error, returned, commodityVars, priceObjs,
                   accountVars, transactionVars, bookSlots, linkPos, countSeen, lastPrice>>

\* _transaction_from_tree up to its loop over the splits.
BeginTransaction ==
    /\ pc = "transactions"
    /\ IF entry = "_book_from_tree"
       THEN Len(transactions) < MaxTransactions
       ELSE entry = "_transaction_from_tree"
    /\ \E currency \in Keys :
          IF commoditydict[currency] = 0
          THEN Fail("KeyError") /\ UNCHANGED <<transactionObjs, transaction>>
          ELSE /\ transactionObjs' = Append(transactionObjs,
                        [currency |-> commoditydict[currency], splits |-> <<>>])
               /\ transaction' = Len(transactionObjs) + 1
               /\ pc' = "splits"
               /\ UNCHANGED error
    /\ UNCHANGED <<numVars, slotVars, walkVars, callVars, returned, commodityVars, priceObjs,
                   accountVars, transactions, splitObjs, bookSlots, linkPos, countSeen,
                   lastPrice>>

\* _transaction_from_tree, one turn of the loop over the splits:
\* _split_from_tree and the append to transaction.splits.  A split that
\* fails ends the decode, so the splits decoded before a split are the split
\* elements before it.
SplitFromTree ==
    /\ pc = "splits"
    /\ Len(transactionObjs[transaction].splits) < MaxSplits
    /\ \E account_guid \in Guids, text \in NumberInputs :
          LET value == ParseNumber(text)
              account == accountdict[account_guid]
              split == Len(splitObjs) + 1
          IN  IF Raised(value)
              THEN Fail(value.exc) /\ UNCHANGED <<splitObjs, accountObjs, transactionObjs>>
              ELSE IF account = 0
              THEN Fail("KeyError") /\ UNCHANGED <<splitObjs, accountObjs, transactionObjs>>
              ELSE /\ splitObjs' = Append(splitObjs,
                            [account |-> account, transaction |-> transaction,
                             account_guid |-> account_guid,
                             position |-> Len(transactionObjs[transaction].splits) + 1])
                   /\ accountObjs' = AppendSplit(accountObjs, account, split)
                   /\ transactionObjs' =
                        [transactionObjs EXCEPT ![transaction].splits = Append(@, split)]
                   /\ UNCHANGED <<pc, error>>
    /\ UNCHANGED <<numVars, slotVars, walkVars, callVars, returned, commodityVars, priceObjs,
                   accountdict, parentdict, accounts, root_account, ndecl, nroot,
                   transactions, transaction, bookSlots, linkPos, countSeen, lastPrice>>

\* _transaction_from_tree returns: to the loop of _book_from_tree, which
\* appends the transaction, or to the caller.
EndTransaction ==
    /\ pc = "splits"
    /\ IF entry = "_book_from_tree"
       THEN /\ transactions' = Append(transactions, transaction)
            /\ pc' = "transactions"
            /\ UNCHANGED returned
       ELSE /\ pc' = "done"
            /\ returned' = "Transaction"
            /\ UNCHANGED transactions
    /\ UNCHANGED <<numVars, slotVars, walkVars, callVars, error, commodityVars, priceObjs, accountVars,
                   transactionObjs, splitObjs, transaction, bookSlots, linkPos, countSeen,
                   lastPrice>>

BookTransactionsEnd ==
    /\ entry = "_book_from_tree" /\ pc = "transactions"
    /\ pc' = "slots"
    /\ UNCHANGED <<numVars, slotVars, walkVars, callVars, error, returned, commodityVars, priceObjs,
                   accountVars, transactionVars, bookSlots, linkPos, countSeen, lastPrice>>

\* _book_from_tree, the slots of the book and the return of the Book.
BookSlots ==
    /\ entry = "_book_from_tree" /\ pc = "slots"
    /\ \E tree \in BookSlotInputs :
          LET r == SlotsFromTree(tree)
          IN  IF Raised(r)
              THEN Fail(r.exc) /\ UNCHANGED <<bookSlots, returned>>
              ELSE /\ bookSlots' = r
                   /\ pc' = "done"
                   /\ returned' = "Book"
                   /\ UNCHANGED error
    /\ UNCHANGED <<numVars, slotVars, walkVars, callVars, commodityVars, priceObjs, accountVars,
                   transactionVars, linkPos, countSeen, lastPrice>>

(***************************************************************************)
(* _iterparse.  The document has one gnc:book element; the count-data      *)
(* record is before or after it; the book has no gnc:transaction element.  *)
(***************************************************************************)
\* The end of a top-level gnc:count-data element.
IterCountData ==
    /\ entry = "_iterparse" /\ pc \in {"prolog", "epilog"}
    /\ countData.present /\ ~countSeen
    /\ IF countData.type = "book" /\ countData.text # "1"
       THEN Fail("ValueError") /\ UNCHANGED countSeen
       ELSE countSeen' = TRUE /\ UNCHANGED <<pc, error>>
    /\ UNCHANGED <<numVars, slotVars, walkVars, callVars, returned, commodityVars, priceObjs,
                   accountVars, transactionVars, bookSlots, linkPos, lastPrice>>

\* The start of the gnc:book element.
IterStartBook ==
    /\ entry = "_iterparse" /\ pc = "prolog"
    /\ pc' = "book"
    /\ UNCHANGED <<numVars, slotVars, walkVars, callVars, error, returned, commodityVars, priceObjs,
                   accountVars, transactionVars, bookSlots, linkPos, countSeen, lastPrice>>

\* _add_commodity
IterCommodity ==
    /\ entry = "_iterparse" /\ pc = "book"
    /\ Len(commodities) < MaxCommodities
    /\ \E key \in Keys :
          LET commodity == Commodity([space |-> key[1], symbol |-> key[2]])
          IN  IF Raised(commodity)
              THEN Fail(commodity.exc) /\ UNCHANGED commodityVars
              ELSE /\ commodityObjs' = Append(commodityObjs,
                                              [commodity EXCEPT !.name = "element"])
                   /\ commoditydict' = [commoditydict EXCEPT ![key] = Len(commodityObjs) + 1]
                   /\ commodities' = Append(commodities, Len(commodityObjs) + 1)
                   /\ UNCHANGED <<pc, error>>
    /\ UNCHANGED <<numVars, slotVars, walkVars, callVars, returned, priceObjs, accountVars,
                   transactionVars, bookSlots, linkPos, countSeen, lastPrice>>

\* _add_account; the KeyError of the parent lookup is caught by the loop.
IterAccount ==
    /\ entry = "_iterparse" /\ pc = "book"
    /\ ndecl < MaxAccounts
    /\ \E actype \in {"ROOT", "BANK"}, parent \in Guids :
          LET acc == Len(accountObjs) + 1
          IN  /\ ndecl' = ndecl + 1
              /\ nroot' = IF actype = "ROOT" THEN nroot + 1 ELSE nroot
              /\ IF actype # "ROOT" /\ accountdict[parent] = 0
                 THEN UNCHANGED <<accountObjs, accountdict, accounts>>
                 ELSE /\ accountObjs' = Append(accountObjs,
                            [Account(ndecl + 1, actype, 0) EXCEPT
                                !.parent = IF actype # "ROOT" THEN accountdict[parent] ELSE 0])
                      /\ accountdict' = [accountdict EXCEPT ![ndecl + 1] = acc]
                      /\ accounts' = Append(accounts, acc)
    /\ UNCHANGED <<numVars, slotVars, walkVars, callVars, pc, error, returned, commodityVars, priceObjs,
                   parentdict, root_account, transactionVars, bookSlots, linkPos, countSeen,
                   lastPrice>>

\* The end of the gnc:book element.
IterEndBook ==
    /\ entry = "_iterparse" /\ pc = "book"
    /\ pc' = "epilog"
    /\ UNCHANGED <<numVars, slotVars, walkVars, callVars, error, returned, commodityVars, priceObjs,
                   accountVars, transactionVars, bookSlots, linkPos, countSeen, lastPrice>>

\* The end of the document: return book.
IterReturn ==
    /\ entry = "_iterparse" /\ pc = "epilog"
    /\ countData.present => countSeen
    /\ pc' = "done"
    /\ returned' = "Book"
    /\ UNCHANGED <<numVars, slotVars, walkVars, callVars, error, commodityVars, priceObjs, accountVars,
                   transactionVars, bookSlots, linkPos, countSeen, lastPrice>>

Next ==
    \/ Parse
    \/ BookCommodity \/ BookCommoditiesEnd
    \/ BookPrice \/ BookPricesEnd
    \/ BookAccount \/ BookAccountsEnd
    \/ BookLink \/ BookLinkEnd
    \/ BeginTransaction \/ SplitFromTree \/ EndTransaction
    \/ BookTransactionsEnd \/ BookSlots
    \/ IterCountData \/ IterStartBook \/ IterCommodity \/ IterAccount
    \/ IterEndBook \/ IterReturn

Spec == Init /\ [][Next]_vars

\* The accounts of the returned Book: book.accounts and book.root_account.
DecodedAccounts ==
    {accounts[i] : i \in 1..Len(accounts)} \cup (IF root_account = 0 THEN {} ELSE {root_account})

\* The transactions of the Book, or the transaction returned to the caller.
DecodedTransactions ==
    IF entry = "_transaction_from_tree"
    THEN {transaction}
    ELSE {transactions[i] : i \in 1..Len(transactions)}

\* The Commodity objects the Book holds.
HeldCommodities ==
    ({commodities[i] : i \in 1..Len(commodities)}
        \cup {accountObjs[a].commodity : a \in DecodedAccounts}
        \cup {transactionObjs[t].currency : t \in DecodedTransactions}
        \cup {priceObjs[i].commodity : i \in 1..Len(priceObjs)}
        \cup {priceObjs[i].currency : i \in 1..Len(priceObjs)}) \ {0}

\* The parent links from acc end, within fuel steps, at an account of type
\* ROOT that has no parent.
RECURSIVE ReachesRoot(_, _)
ReachesRoot(acc, fuel) ==
    IF accountObjs[acc].actype = "ROOT"
    THEN accountObjs[acc].parent = 0
    ELSE /\ fuel > 0
         /\ accountObjs[acc].parent # 0
         /\ ReachesRoot(accountObjs[acc].parent, fuel - 1)

\* The count-data record of type book declares another value than 1.
BadBookCount == countData.present /\ countData.type = "book" /\ countData.text # "1"

\* C1: when a document with exactly one declaration of type ROOT decodes to
\* a Book, the parent links of every account of the Book lead, in at most as
\* many steps as there are accounts, to an account of type ROOT without a
\* parent; so no account is met twice.
C1_AccountsFormTree ==
    (pc = "done" /\ returned = "Book" /\ nroot = 1)
        => \A acc \in DecodedAccounts : ReachesRoot(acc, Len(accountObjs))

\* A Book of a document with one ROOT declaration has an account whose
\* parent has a parent.
C1_Witness ==
    /\ pc = "done" /\ returned = "Book" /\ nroot = 1
    /\ \E acc \in DecodedAccounts :
          /\ accountObjs[acc].parent # 0
          /\ accountObjs[accountObjs[acc].parent].parent # 0

\* C2: after a decode that returned, every split s at index i of the splits
\* of a decoded transaction t has t as its transaction, was the i-th split
\* element of t, has the account whose id the split element names, and is
\* exactly once in the splits of that account.
C2_SplitLinks ==
    pc = "done" =>
        \A t \in DecodedTransactions :
            \A i \in 1..Len(transactionObjs[t].splits) :
                LET s == transactionObjs[t].splits[i]
                    held == accountObjs[splitObjs[s].account].splits
                IN  /\ splitObjs[s].transaction = t
                    /\ splitObjs[s].position = i
                    /\ accountObjs[splitObjs[s].account].guid = splitObjs[s].account_guid
                    /\ Cardinality({j \in 1..Len(held) : held[j] = s}) = 1

\* A transaction is returned with two splits of one account.
C2_Witness ==
    /\ pc = "done" /\ returned = "Transaction"
    /\ Len(transactionObjs[transaction].splits) = 2
    /\ splitObjs[transactionObjs[transaction].splits[1]].account
            = splitObjs[transactionObjs[transaction].splits[2]].account

\* C3: in a returned Book, two Commodity objects of the same (namespace,
\* symbol) are one object.
C3_OneObjectPerKey ==
    (pc = "done" /\ returned = "Book")
        => \A c \in HeldCommodities, d \in HeldCommodities :
              KeyOf(commodityObjs[c]) = KeyOf(commodityObjs[d]) => c = d

\* C4: a Book is returned only for a document that declares exactly one
\* account of type ROOT.
C4_BookOnlyWithOneRoot ==
    (pc = "done" /\ returned = "Book") => nroot = 1

\* C5: no Book is returned for a document whose count-data record of type
\* book declares another value than 1.
C5_BadBookCountReturnsNoBook ==
    BadBookCount => returned # "Book"

\* C6: a price with a well-formed value whose currency key is not in the
\* commodity dictionary leaves a Commodity of that key, without name and
\* xcode, in the dictionary; it is the currency of the price when the priced
\* commodity is in the dictionary.
C6_UndeclaredCurrencyRegisters ==
    (lastPrice.seen /\ lastPrice.wellFormed /\ ~lastPrice.currencyKnown)
        => LET c == commoditydict[lastPrice.currency]
           IN  /\ c # 0
               /\ KeyOf(commodityObjs[c]) = lastPrice.currency
               /\ commodityObjs[c].name = "none" /\ commodityObjs[c].xcode = "none"
               /\ lastPrice.commodityKnown
                    => (priceObjs # <<>> /\ priceObjs[Len(priceObjs)].currency = c)

\* C7: a price with a well-formed value whose priced commodity key is not in
\* the commodity dictionary decodes: the key is registered and its Commodity
\* is the commodity of the price.
C7_UndeclaredCommodityRegisters ==
    (lastPrice.seen /\ lastPrice.wellFormed /\ ~lastPrice.commodityKnown)
        => /\ commoditydict[lastPrice.commodity] # 0
           /\ priceObjs # <<>>
           /\ priceObjs[Len(priceObjs)].commodity = commoditydict[lastPrice.commodity]

\* The number of times acc is in the children of its parent.
TimesInChildren(acc) ==
    LET siblings == accountObjs[accountObjs[acc].parent].children
    IN  Cardinality({j \in 1..Len(siblings) : siblings[j] = acc})

\* C11: a Book is returned only when every account declaration was decoded,
\* and in it every account that is not of type ROOT has a parent and is
\* exactly once in the children of that parent, wherever the parent was
\* declared; a declaration whose parent id names no account leaves no Book.
C11_EveryDeclarationLinked ==
    (pc = "done" /\ returned = "Book")
        => /\ Len(accountObjs) = ndecl
           /\ \A acc \in 1..Len(accountObjs) :
                 accountObjs[acc].actype # "ROOT"
                    => /\ accountObjs[acc].parent # 0
                       /\ TimesInChildren(acc) = 1

\* C13: _book_from_tree decodes the prices after the accounts and the
\* transactions: when it is at the price database, or has handled a price,
\* the loop over the account declarations is over (linkPos is then set).
C13_PricesAfterTransactions ==
    (entry = "_book_from_tree" /\ (pc = "pricedb" \/ lastPrice.seen)) => linkPos > 0

Orderings(S) ==
    {f \in [1..Cardinality(S) -> S] : \A i, j \in 1..Cardinality(S) : f[i] = f[j] => i = j}

\* The trees of n accounts: account 1 is the root, the parent of another
\* account is an account of a smaller index, and the children of an account
\* are listed in the order that an ordering of all accounts gives them.
AccountTrees(n) ==
    LET parents == {p \in [1..n -> 0..n] :
                        \A i \in 1..n : IF i = 1 THEN p[i] = 0 ELSE p[i] \in 1..(i - 1)}
    IN  {[a \in 1..n |->
            [Account(a, IF a = 1 THEN "ROOT" ELSE "BANK", 0) EXCEPT
                !.parent = p[a],
                !.children = SelectSeq(order, LAMBDA x : p[x] = a)]] :
         p \in parents, order \in Orderings(1..n)}

\* The list with the items at its front.
ExtendAtFront(list, items) == items \o list

\* list.extend(items)
Extend(list, items) == list \o items

RemoveAt(list, i) == SubSeq(list, 1, i - 1) \o SubSeq(list, i + 1, Len(list))

InitWalk ==
    /\ IdleNumber /\ IdleSlots
    /\ entry = "Account.walk" /\ pc = "idle"
    /\ countData = NoCount
    /\ error = "none" /\ returned = "none"
    /\ commodityObjs = <<>> /\ commodities = <<>>
    /\ commoditydict = [k \in Keys |-> 0]
    /\ priceObjs = <<>>
    /\ \E n \in 1..MaxWalkAccounts :
          /\ accountObjs \in AccountTrees(n)
          /\ walkSelf \in 1..n
    /\ accounts = <<>> /\ root_account = 0
    /\ accountdict = [g \in Guids |-> 0]
    /\ parentdict = [g \in Guids |-> 0]
    /\ transactionObjs = <<>> /\ transactions = <<>>
    /\ splitObjs = <<>> /\ transaction = 0
    /\ bookSlots = NoResult
    /\ linkPos = 0 /\ ndecl = 0 /\ nroot = 0 /\ countSeen = FALSE
    /\ lastPrice = NoPrice
    /\ walkAccounts = <<>> /\ walkChildren = <<>>
    /\ wpc = "start" /\ yielded = <<>>
    /\ removed = FALSE /\ added = FALSE /\ edits = 0

\* The caller resumes the generator: from its start or from the yield to the
\* next yield, or to its end.
WalkNext ==
    /\ wpc \in {"start", "yield"}
    /\ LET list == IF wpc = "start" THEN <<walkSelf>> ELSE Extend(walkAccounts, walkChildren)
       IN  IF list = <<>>
           THEN /\ wpc' = "finished"
                /\ walkAccounts' = list
                /\ UNCHANGED <<walkChildren, yielded>>
           ELSE /\ walkAccounts' = Tail(list)
                /\ walkChildren' = accountObjs[Head(list)].children
                /\ yielded' = Append(yielded, Head(list))
                /\ wpc' = "yield"
    /\ UNCHANGED <<numVars, slotVars, graphVars, walkSelf, removed, added, edits>>

\* The caller removes an element of the list it was handed.
CallerRemove ==
    /\ wpc = "yield" /\ edits < MaxEdits
    /\ \E i \in 1..Len(walkChildren) : walkChildren' = RemoveAt(walkChildren, i)
    /\ removed' = TRUE
    /\ edits' = edits + 1
    /\ UNCHANGED <<numVars, slotVars, graphVars, walkSelf, walkAccounts, wpc, yielded, added>>

\* The caller appends an account to the list it was handed.
CallerAppend ==
    /\ wpc = "yield" /\ edits < MaxEdits
    /\ \E a \in 1..Len(accountObjs) : walkChildren' = Append(walkChildren, a)
    /\ added' = TRUE
    /\ edits' = edits + 1
    /\ UNCHANGED <<numVars, slotVars, graphVars, walkSelf, walkAccounts, wpc, yielded, removed>>

NextWalk == WalkNext \/ CallerRemove \/ CallerAppend

\* A caller that iterates over walk() resumes it as long as it has not ended.
SpecWalk == InitWalk /\ [][NextWalk]_vars /\ WF_vars(WalkNext)

\* The number of parent links from acc to the root of the tree.
RECURSIVE DepthOf(_)
DepthOf(acc) ==
    IF accountObjs[acc].parent = 0 THEN 0 ELSE 1 + DepthOf(accountObjs[acc].parent)

\* acc is r or a descendant of r.
RECURSIVE Descends(_, _)
Descends(acc, r) ==
    \/ acc = r
    \/ accountObjs[acc].parent # 0 /\ Descends(accountObjs[acc].parent, r)

Subtree(r) == {acc \in 1..Len(accountObjs) : Descends(acc, r)}

Yielded == {yielded[i] : i \in 1..Len(yielded)}

\* The place of acc in the children of its parent.
PlaceInChildren(acc) ==
    LET siblings == accountObjs[accountObjs[acc].parent].children
    IN  CHOOSE j \in 1..Len(siblings) : siblings[j] = acc

FirstIsSelf == yielded # <<>> => yielded[1] = walkSelf

NoneTwice == \A i, j \in 1..Len(yielded) : yielded[i] = yielded[j] => i = j

LevelOrder ==
    \A i, j \in 1..Len(yielded) : i < j => DepthOf(yielded[i]) <= DepthOf(yielded[j])

SiblingOrder ==
    \A i, j \in 1..Len(yielded) :
        (/\ i < j
         /\ yielded[i] # yielded[j]
         /\ accountObjs[yielded[i]].parent # 0
         /\ accountObjs[yielded[i]].parent = accountObjs[yielded[j]].parent)
            => PlaceInChildren(yielded[i]) < PlaceInChildren(yielded[j])

\* C12 as stated: walk yields self first, every descendant exactly once, no
\* account of a depth after an account of a greater depth, siblings in the
\* order of their parent's children, and it ends; for a caller that leaves
\* the yielded lists alone the accounts yielded are self and its descendants.
C12_BreadthFirstForEveryCaller ==
    /\ [](/\ FirstIsSelf /\ NoneTwice /\ LevelOrder /\ SiblingOrder
          /\ wpc = "finished" => Subtree(walkSelf) \subseteq Yielded
          /\ (wpc = "finished" /\ ~removed /\ ~added) => Yielded = Subtree(walkSelf))
    /\ <>(wpc = "finished")

\* C12 as amended: walk yields self first.  For a caller that appends
\* nothing to the yielded lists it yields descendants of self only, none
\* twice, no account of a depth after an account of a greater depth, siblings
\* in the order of their parent's children, and it ends.  For a caller that
\* leaves the yielded lists alone the accounts yielded are exactly self and
\* its descendants.
C12_BreadthFirstOfWhatTheCallerLeaves ==
    /\ [](/\ FirstIsSelf
          /\ ~added => (/\ NoneTwice /\ LevelOrder /\ SiblingOrder
                        /\ Yielded \subseteq Subtree(walkSelf))
          /\ (wpc = "finished" /\ ~removed /\ ~added) => Yielded = Subtree(walkSelf))
    /\ <>(wpc = "finished" \/ added)

\* walk has ended on a tree in which self has two children and a grandchild,
\* and the caller has left the lists alone.
C12_Witness ==
    /\ wpc = "finished" /\ ~removed /\ ~added
    /\ Len(accountObjs[walkSelf].children) >= 2
    /\ \E acc \in Subtree(walkSelf) : DepthOf(acc) = DepthOf(walkSelf) + 2

====
